---- MODULE Spec2Model ----
(***************************************************************************)
(* Conversation session and usage quota manager of bot.py: the usage      *)
(* store (usage.json), the quota check, the per-user thread map, the run  *)
(* driver with its polling loop, and the message handler built on them.   *)
(***************************************************************************)
EXTENDS Naturals, Sequences, FiniteSets, TLC

(* ------------------------------------------------------------------ *)
(* Program constants (bot.py lines 65-67).                             *)
(* ------------------------------------------------------------------ *)
DAILY_MSG_LIMIT == 50
MONTHLY_MSG_LIMIT == 500
MONTHLY_TOKEN_LIMIT == 200000

(* ------------------------------------------------------------------ *)
(* Bounds of the model.                                                *)
(* ------------------------------------------------------------------ *)
\* Handler coroutines the dispatcher has room for.
NumTasks == 1
\* Threads the assistant service hands out before thread creation fails.
MaxThreads == 2
\* Messages of a thread the service returns in one page of messages.list.
PageLimit == 2
\* Updates the transport delivers in one behaviour of Spec.
MaxUpdates == 1
\* Total tokens a run reports when it reports its usage.
RunTokens == 100000
\* Updates the transport delivers in one behaviour of SpecSession.
SessionUpdates == 3
\* Registrations per user in one behaviour of SpecStore.
MaxRegs == 2
\* Updates the transport delivers in one behaviour of SpecAdmin.
AdminUpdates == 1

\* Telegram users that send updates.
Users == {1, 2}
\* The user of the specifications about one user.
DayUser == CHOOSE u \in Users : \A v \in Users : u <= v
Tasks == 1..NumTasks
\* The dates the local clock shows, in the order it reaches them: a day,
\* the next day of the same month, a day of the next month.
FirstDate == [m |-> 1, d |-> 1]
Dates == {FirstDate, [m |-> 1, d |-> 2], [m |-> 2, d |-> 1]}
Before(a, b) == a.m < b.m \/ (a.m = b.m /\ a.d < b.d)

(* ------------------------------------------------------------------ *)
(* Texts. A text is a sequence of pieces; "\n" is the newline piece.   *)
(* ------------------------------------------------------------------ *)
LimitMsg == <<"Has alcanzado el limite de uso. Intentalo mas tarde.">>
ApologyMsg == <<"Hubo un problema generando la respuesta. Intentalo de nuevo.">>
NoResponseMsg == <<"No encontre respuesta del asistente.">>
CommErrorMsg == <<"Ocurrio un error al comunicar con el asistente. Intentalo de nuevo.">>
NoText == <<>>

\* Content segments of a message: c.type and c.text.value.
TextSeg(v) == [type |-> "text", value |-> v]
ImageSeg == [type |-> "image_file", value |-> NoText]
\* Contents the assistant produces for a message in this model.
AssistantContents ==
    { <<TextSeg(<<"b">>), ImageSeg, TextSeg(<<"a">>)>>,
      <<ImageSeg>> }
UserContent == <<TextSeg(<<"q">>)>>
\* A message of a thread: msg.role and msg.content, and the handler in flight
\* that appended it or whose run produced it (0 once that handler is over).
Msg(role, content, turn) == [role |-> role, content |-> content, turn |-> turn]

\* Statuses of a run for which run_assistant keeps polling, and the others.
PollingStatuses == {"queued", "in_progress"}
EndStatuses == {"completed", "failed", "expired"}

(* ------------------------------------------------------------------ *)
(* The clock: datetime.now().strftime("%Y-%m-%d") and ("%Y-%m").       *)
(* ------------------------------------------------------------------ *)
TodayStamp(now) == <<now.m, now.d>>
MonthStamp(now) == <<now.m>>

(* ------------------------------------------------------------------ *)
(* The usage file. st: "missing" (no usage.json), "ok" (a JSON         *)
(* document: data maps the user keys to their records) or "corrupt"    *)
(* (a truncated or partial document that json.load rejects).           *)
(* ------------------------------------------------------------------ *)
EmptyDict == <<>>
MissingFile == [st |-> "missing", data |-> EmptyDict]
CorruptFile == [st |-> "corrupt", data |-> EmptyDict]
OkFile(data) == [st |-> "ok", data |-> data]

\* load_usage raises on a document json.load cannot parse.
load_usage_raises(file) == file.st = "corrupt"
load_usage(file) == IF file.st = "missing" THEN EmptyDict ELSE file.data

\* save_usage: open(USAGE_FILE, "w") truncates the file, json.dump writes it.
\* how = "ok": written; "open": open raised, the file is as before;
\* "dump": the write raised after the truncation.
save_usage(file, data, how) ==
    CASE how = "ok" -> OkFile(data)
      [] how = "open" -> file
      [] how = "dump" -> CorruptFile
SaveOutcomes == {"ok", "open", "dump"}

\* The record of a user unknown so far; now and now2 are what the two calls of
\* datetime.now() of _ensure_usage_structure return (lines 83 and 84).
NewRecord(now, now2) ==
    [daily |-> 0, monthly |-> 0,
     last_day |-> TodayStamp(now), last_month |-> MonthStamp(now2),
     tokens_today |-> 0, tokens_month |-> 0]

\* Faulty variant: the month test is an elif of the day test.
_ensure_usage_structure_elif(usage, user_id, now, now2) ==
    LET today == TodayStamp(now)
        month == MonthStamp(now2)
        u1 == IF user_id \in DOMAIN usage THEN usage
              ELSE (user_id :> NewRecord(now, now2)) @@ usage
        r0 == u1[user_id]
        r2 == IF r0.last_day # today
              THEN [r0 EXCEPT !.daily = 0, !.tokens_today = 0, !.last_day = today]
              ELSE IF r0.last_month # month
              THEN [r0 EXCEPT !.monthly = 0, !.tokens_month = 0, !.last_month = month]
              ELSE r0
    IN [u1 EXCEPT ![user_id] = r2]

\* _ensure_usage_structure: the usage dict after the call (user is usage[user_id]).
\* today is taken from the first datetime.now() (now), month from the second
\* one (now2); the date can change between the two.
_ensure_usage_structure(usage, user_id, now, now2) ==
    LET today == TodayStamp(now)
        month == MonthStamp(now2)
        u1 == IF user_id \in DOMAIN usage THEN usage
              ELSE (user_id :> NewRecord(now, now2)) @@ usage
        r0 == u1[user_id]
        r1 == IF r0.last_day # today
              THEN [r0 EXCEPT !.daily = 0, !.tokens_today = 0, !.last_day = today]
              ELSE r0
        r2 == IF r1.last_month # month
              THEN [r1 EXCEPT !.monthly = 0, !.tokens_month = 0, !.last_month = month]
              ELSE r1
    IN [u1 EXCEPT ![user_id] = r2]

\* Faulty variant: the limits compared with > instead of >=.
can_user_continue_strict(usage0, user_id, now, now2) ==
    LET usage == _ensure_usage_structure(usage0, user_id, now, now2)
        user == usage[user_id]
    IN IF user.daily > DAILY_MSG_LIMIT THEN FALSE
       ELSE IF user.monthly > MONTHLY_MSG_LIMIT THEN FALSE
       ELSE IF user.tokens_month > MONTHLY_TOKEN_LIMIT THEN FALSE
       ELSE TRUE

\* Faulty variant: the monthly message count is not tested.
can_user_continue_no_monthly(usage0, user_id, now, now2) ==
    LET usage == _ensure_usage_structure(usage0, user_id, now, now2)
        user == usage[user_id]
    IN IF user.daily >= DAILY_MSG_LIMIT THEN FALSE
       ELSE IF user.tokens_month >= MONTHLY_TOKEN_LIMIT THEN FALSE
       ELSE TRUE

\* can_user_continue, on the document load_usage returned.
can_user_continue(usage0, user_id, now, now2) ==
    LET usage == _ensure_usage_structure(usage0, user_id, now, now2)
        user == usage[user_id]
    IN IF user.daily >= DAILY_MSG_LIMIT THEN FALSE
       ELSE IF user.monthly >= MONTHLY_MSG_LIMIT THEN FALSE
       ELSE IF user.tokens_month >= MONTHLY_TOKEN_LIMIT THEN FALSE
       ELSE TRUE

\* Faulty variant: the monthly message count is not incremented.
register_usage_no_monthly(usage0, user_id, tokens_used, now, now2) ==
    LET usage == _ensure_usage_structure(usage0, user_id, now, now2)
        user == usage[user_id]
    IN [usage EXCEPT ![user_id] =
            [user EXCEPT !.daily = user.daily + 1,
                         !.tokens_today = user.tokens_today + tokens_used,
                         !.tokens_month = user.tokens_month + tokens_used]]

\* Faulty variant: the usage dict is not loaded, the message is counted in an
\* empty one.
register_usage_from_empty(usage0, user_id, tokens_used, now, now2) ==
    LET usage == _ensure_usage_structure(EmptyDict, user_id, now, now2)
        user == usage[user_id]
    IN [usage EXCEPT ![user_id] =
            [user EXCEPT !.daily = user.daily + 1,
                         !.monthly = user.monthly + 1,
                         !.tokens_today = user.tokens_today + tokens_used,
                         !.tokens_month = user.tokens_month + tokens_used]]

\* register_usage_after_response, up to save_usage: the dict handed to save_usage.
register_usage_after_response(usage0, user_id, tokens_used, now, now2) ==
    LET usage == _ensure_usage_structure(usage0, user_id, now, now2)
        user == usage[user_id]
    IN [usage EXCEPT ![user_id] =
            [user EXCEPT !.daily = user.daily + 1,
                         !.monthly = user.monthly + 1,
                         !.tokens_today = user.tokens_today + tokens_used,
                         !.tokens_month = user.tokens_month + tokens_used]]

(* ------------------------------------------------------------------ *)
(* run_assistant after the polling loop.                               *)
(* ------------------------------------------------------------------ *)
RECURSIVE JoinParts(_)
\* "\n".join(parts)
JoinParts(parts) ==
    IF parts = <<>> THEN NoText
    ELSE IF Len(parts) = 1 THEN Head(parts)
    ELSE Head(parts) \o <<"\n">> \o JoinParts(Tail(parts))

RECURSIVE TextParts(_)
\* for c in msg.content: if c.type == "text": parts.append(c.text.value)
TextParts(content) ==
    IF content = <<>> THEN <<>>
    ELSE IF Head(content).type = "text"
         THEN <<Head(content).value>> \o TextParts(Tail(content))
         ELSE TextParts(Tail(content))

\* Faulty variant: only the newest message of the page is looked at.
FirstAssistantReply_newest(data) ==
    IF data = <<>> THEN NoResponseMsg
    ELSE IF Head(data).role = "assistant"
         THEN JoinParts(TextParts(Head(data).content))
         ELSE NoResponseMsg

RECURSIVE FirstAssistantReply(_)
\* for msg in messages.data: if msg.role == "assistant": return the joined parts
FirstAssistantReply(data) ==
    IF data = <<>> THEN NoResponseMsg
    ELSE IF Head(data).role = "assistant"
         THEN JoinParts(TextParts(Head(data).content))
         ELSE FirstAssistantReply(Tail(data))

\* run.usage.total_tokens inside try/except: 0 when run.usage is unavailable.
NoUsage == [avail |-> FALSE, total |-> 0]
Usage(n) == [avail |-> TRUE, total |-> n]
tokens_used_of(usage) == IF usage.avail THEN usage.total ELSE 0

\* What run_assistant returns for the status that ended the loop.
run_assistant_result(status, data, usage) ==
    IF status # "completed"
    THEN [respuesta |-> ApologyMsg, tokens |-> 0]
    ELSE [respuesta |-> FirstAssistantReply(data), tokens |-> tokens_used_of(usage)]

(* ------------------------------------------------------------------ *)
(* State.                                                              *)
(* ------------------------------------------------------------------ *)
VARIABLES
    usage_file,     \* usage.json on disk
    user_threads,   \* the dict user_threads: user id -> thread id
    nthreads,       \* threads the assistant service has created (ids 1..nthreads)
    convs,          \* per thread id: the page messages.list returns, newest first
    runs,           \* per task: the run its run_assistant drives, at the service
    clock,          \* the local date datetime.now() shows
    task,           \* per task: the handler coroutine's position and locals
    budget,         \* updates the transport still delivers
    admit_log,      \* per user: last is what can_user_continue last returned
                    \* ("none" after a register_usage_after_response or a
                    \* change of date); again: the call before it returned too
    sent,           \* per user: registrations saved and the tokens they added;
                    \* lost: a turn of the user whose run the service had
                    \* accepted ended without a registration saved
    handles,        \* per user: got is the thread id the last get_or_create_thread
                    \* returned since the last reset_thread (0: none); again: the
                    \* call before it, since that reset_thread, returned too;
                    \* made is the thread id last created for the user (0: none),
                    \* old the thread ids reset_thread replaced in the map, before
                    \* what got was when the last reset_thread was called
    logs,           \* the users that have a file logs/<user_id>.log
    job             \* the job weekly_report of the job queue: its position and
                    \* locals, what it has sent, and the runs it has made

vars == <<usage_file, user_threads, nthreads, convs, runs, clock, task, budget,
          admit_log, sent, handles, logs, job>>

NoAdmit == [last |-> "none", again |-> FALSE]
NoHandles == [got |-> 0, again |-> FALSE, made |-> 0, old |-> {}, before |-> 0]
NoRun == [status |-> "none", usage |-> NoUsage]
\* A handler coroutine: pc is the await or call it is at, reply the text its
\* last send delivered, photos the charts it has delivered, loaded the usage
\* dict it read for them.
IdleTask ==
    [pc |-> "idle", kind |-> "none", user |-> 0, thread_id |-> 0, status |-> "none",
     usage |-> NoUsage, respuesta |-> NoText, tokens |-> 0, reply |-> NoText,
     loaded |-> EmptyDict, photos |-> <<>>]
\* The job: at "send" report is the text it is sending, at "docs" the text it
\* has delivered and files the log files it still has to send; ran: the job
\* has come due (it is due once a week).
IdleJob == [pc |-> "idle", report |-> NoText, files |-> {}, ran |-> FALSE]
\* The sets of log files earlier runs of the bot can have left: log_message
\* writes the file of a user before anything of the user is registered, so
\* every user with a record has a file; a user whose turn failed before it
\* was registered, or whose record a failed save_usage lost, has one too.
SeedLogs(file) ==
    {l \in SUBSET Users : (IF file.st = "ok" THEN DOMAIN file.data ELSE {}) \subseteq l}

\* Records a usage.json written by earlier runs of the bot holds on the first
\* day of the calendar: one message short of one of the three limits, or at it.
SeedRecords ==
    LET base == NewRecord(FirstDate, FirstDate)
    IN UNION { { [base EXCEPT !.daily = DAILY_MSG_LIMIT - k,
                              !.monthly = DAILY_MSG_LIMIT - k],
                 [base EXCEPT !.daily = 2 - k,
                              !.monthly = MONTHLY_MSG_LIMIT - k],
                 [base EXCEPT !.daily = 2 - k, !.monthly = 2 - k,
                              !.tokens_today = MONTHLY_TOKEN_LIMIT - k * RunTokens,
                              !.tokens_month = MONTHLY_TOKEN_LIMIT - k * RunTokens] }
             : k \in {0, 1} }

\* What usage.json can be when the process starts: not there, left truncated
\* by a save_usage that failed, or a document with the record of one user.
SeedFiles ==
    {MissingFile, CorruptFile} \cup
    { OkFile(data) : data \in UNION { [{u} -> SeedRecords] : u \in Users } }

InitCommon ==
    /\ user_threads = EmptyDict
    /\ nthreads = 0
    /\ convs = [h \in 1..MaxThreads |-> <<>>]
    /\ runs = [t \in Tasks |-> NoRun]
    /\ clock = FirstDate
    /\ task = [t \in Tasks |-> IdleTask]
    /\ admit_log = [u \in Users |-> NoAdmit]
    /\ sent = [u \in Users |-> [n |-> 0, tok |-> 0, lost |-> FALSE]]
    /\ handles = [u \in Users |-> NoHandles]
    /\ job = IdleJob

Init ==
    /\ InitCommon
    /\ usage_file \in SeedFiles
    /\ logs \in SeedLogs(usage_file)
    /\ budget = [limited |-> TRUE, left |-> MaxUpdates]

(* ------------------------------------------------------------------ *)
(* The dispatcher: Application.builder().token(...).build() processes  *)
(* one update at a time, the next one after the handler returned.      *)
(* ------------------------------------------------------------------ *)
Dispatchable(t) ==
    /\ task[t].pc = "idle"
    /\ \A o \in Tasks : task[o].pc = "idle"

\* The handler is between its awaits, in calls that do not give up the event
\* loop (get_or_create_thread, messages.create, run_assistant with its
\* time.sleep, register_usage_after_response): nothing else runs on the loop.
InSync(t) == task[t].pc \in {"thread", "append", "run", "poll", "register"}

\* One update leaves the transport.
Delivered ==
    IF budget.limited
    THEN budget.left > 0 /\ budget' = [budget EXCEPT !.left = @ - 1]
    ELSE UNCHANGED budget

SetTask(t, r) == task' = [task EXCEPT ![t] = r]
Goto(t, pc) == SetTask(t, [task[t] EXCEPT !.pc = pc])
\* An exception leaves the statement the handler is at: inside the try block
\* control passes to the except block ("except"), elsewhere the exception
\* leaves the handler ("raised"). The locals are not read again; what the
\* handler has sent stays sent.
Raise(t, pc) ==
    SetTask(t, [IdleTask EXCEPT !.pc = pc, !.kind = task[t].kind,
                                !.user = task[t].user,
                                !.reply = task[t].reply, !.photos = task[t].photos])
\* The handler sent its last reply and returns.
Finish(t, text) ==
    SetTask(t, [IdleTask EXCEPT !.pc = "done", !.kind = task[t].kind,
                                !.user = task[t].user,
                                !.status = task[t].status, !.reply = text])

\* An update with text arrives for handle_message.
Receive(t, u) ==
    /\ Dispatchable(t)
    /\ Delivered
    /\ SetTask(t, [IdleTask EXCEPT !.pc = "check", !.kind = "message", !.user = u])
    /\ UNCHANGED <<usage_file, user_threads, nthreads, convs, runs, clock,
                   admit_log, sent, handles, logs, job>>

\* What the call of can_user_continue of user u, whose second datetime.now()
\* returned now2, leaves in admit_log.
Admitted(u, ok, now2) ==
    IF now2 = clock
    THEN [admit_log EXCEPT ![u] = [last |-> IF ok THEN "yes" ELSE "no",
                                   again |-> @.last # "none"]]
    ELSE [v \in Users |-> NoAdmit]

\* Faulty variant: can_user_continue saves the reconciled document.
CheckAdmission_saves(t, now2) ==
    /\ task[t].pc = "check"
    /\ IF load_usage_raises(usage_file)
       THEN Raise(t, "raised") /\ UNCHANGED <<admit_log, usage_file, clock>>
       ELSE LET ok == can_user_continue(load_usage(usage_file), task[t].user,
                                        clock, now2)
            IN /\ Goto(t, IF ok THEN "typing" ELSE "limit")
               /\ admit_log' = Admitted(task[t].user, ok, now2)
               /\ clock' = now2
               /\ usage_file' = OkFile(_ensure_usage_structure(
                                    load_usage(usage_file), task[t].user, clock, now2))
    /\ UNCHANGED <<user_threads, nthreads, convs, runs, budget, sent, handles, logs, job>>

\* Faulty variant: can_user_continue counts the message it admits.
CheckAdmission_counts(t, now2) ==
    /\ task[t].pc = "check"
    /\ IF load_usage_raises(usage_file)
       THEN Raise(t, "raised") /\ UNCHANGED <<admit_log, usage_file, clock>>
       ELSE LET ok == can_user_continue(load_usage(usage_file), task[t].user,
                                        clock, now2)
            IN /\ Goto(t, IF ok THEN "typing" ELSE "limit")
               /\ admit_log' = Admitted(task[t].user, ok, now2)
               /\ clock' = now2
               /\ usage_file' =
                     IF ok
                     THEN OkFile(register_usage_after_response(
                                    load_usage(usage_file), task[t].user, 0, clock, now2))
                     ELSE usage_file
    /\ UNCHANGED <<user_threads, nthreads, convs, runs, budget, sent, handles, logs, job>>

\* handle_message line 355: can_user_continue(user_id). The first
\* datetime.now() of _ensure_usage_structure returns the date of the clock,
\* the second one now2, which the clock shows from then on.
CheckAdmission(t, now2) ==
    /\ task[t].pc = "check"
    /\ IF load_usage_raises(usage_file)
       THEN Raise(t, "raised") /\ UNCHANGED <<admit_log, clock>>
       ELSE LET ok == can_user_continue(load_usage(usage_file), task[t].user,
                                        clock, now2)
            IN /\ Goto(t, IF ok THEN "typing" ELSE "limit")
               /\ admit_log' = Admitted(task[t].user, ok, now2)
               /\ clock' = now2
    /\ UNCHANGED <<usage_file, user_threads, nthreads, convs, runs,
                   budget, sent, handles, logs, job>>

\* handle_message lines 356-357: the limit reply, then return.
ReplyLimit(t) ==
    /\ task[t].pc = "limit"
    /\ \E sent_ok \in BOOLEAN :
          IF sent_ok
          THEN Finish(t, LimitMsg)
          ELSE Raise(t, "raised")
    /\ UNCHANGED <<usage_file, user_threads, nthreads, convs, runs, clock,
                   budget, admit_log, sent, handles, logs, job>>

\* handle_message lines 359-360: send_action("typing") and log_message,
\* both before the try block. io = "send": send_action raised; "log":
\* log_message raised after open created the file.
Typing(t) ==
    /\ task[t].pc = "typing"
    /\ \E io \in {"ok", "send", "log"} :
          /\ Goto(t, IF io = "ok" THEN "thread" ELSE "raised")
          /\ logs' = IF io = "send" THEN logs ELSE logs \cup {task[t].user}
    /\ UNCHANGED <<usage_file, user_threads, nthreads, convs, runs, clock,
                   budget, admit_log, sent, handles, job>>

(* ------------------------------------------------------------------ *)
(* The thread map.                                                     *)
(* ------------------------------------------------------------------ *)
\* client.beta.threads.create(): the service hands out the next thread id.
ThreadCreatable == nthreads < MaxThreads

\* Faulty variant: the map is not looked up, every call creates a thread.
get_or_create_thread_always_new(user_id) ==
    [id |-> nthreads + 1,
     map |-> (user_id :> (nthreads + 1)) @@ user_threads,
     n |-> nthreads + 1]

\* Faulty variant: the created thread is returned and not stored in the map.
get_or_create_thread_nostore(user_id) ==
    IF user_id \in DOMAIN user_threads
    THEN [id |-> user_threads[user_id], map |-> user_threads, n |-> nthreads]
    ELSE [id |-> nthreads + 1, map |-> user_threads, n |-> nthreads + 1]

\* get_or_create_thread(user_id) when it returns: the thread id, and the map
\* and the service's thread count after it.
get_or_create_thread(user_id) ==
    IF user_id \in DOMAIN user_threads
    THEN [id |-> user_threads[user_id], map |-> user_threads, n |-> nthreads]
    ELSE [id |-> nthreads + 1,
          map |-> (user_id :> (nthreads + 1)) @@ user_threads,
          n |-> nthreads + 1]

\* Faulty variant: the thread is created, a stored thread id is kept.
reset_thread_keeps(user_id) ==
    [id |-> nthreads + 1,
     map |-> IF user_id \in DOMAIN user_threads THEN user_threads
             ELSE (user_id :> (nthreads + 1)) @@ user_threads,
     n |-> nthreads + 1]

\* reset_thread(user_id) when it returns.
reset_thread(user_id) ==
    [id |-> nthreads + 1,
     map |-> (user_id :> (nthreads + 1)) @@ user_threads,
     n |-> nthreads + 1]

\* The record of the calls: g is what get_or_create_thread(user_id) returned;
\* the service created a thread in the call when its thread count rose.
Got(user_id, g) ==
    [handles EXCEPT ![user_id] =
        [@ EXCEPT !.got = g.id,
                  !.again = handles[user_id].got # 0,
                  !.made = IF g.n > nthreads THEN g.n ELSE @]]
\* g is what reset_thread(user_id) returned.
Replaced(user_id, g) ==
    [handles EXCEPT ![user_id] =
        [got |-> 0,
         again |-> FALSE,
         before |-> @.got,
         made |-> IF g.n > nthreads THEN g.n ELSE @.made,
         old |-> IF user_id \in DOMAIN user_threads
                 THEN @.old \cup {user_threads[user_id]}
                 ELSE @.old]]

\* handle_message line 363, the first statement of the try block.
GetThread(t) ==
    /\ task[t].pc = "thread"
    /\ \/ /\ task[t].user \in DOMAIN user_threads \/ ThreadCreatable
          /\ LET g == get_or_create_thread(task[t].user)
             IN /\ SetTask(t, [task[t] EXCEPT !.pc = "append", !.thread_id = g.id])
                /\ user_threads' = g.map
                /\ nthreads' = g.n
                /\ handles' = Got(task[t].user, g)
       \/ \* threads.create() raises
          /\ task[t].user \notin DOMAIN user_threads
          /\ Raise(t, "except")
          /\ UNCHANGED <<user_threads, nthreads, handles, logs, job>>
    /\ UNCHANGED <<usage_file, convs, runs, clock, budget, admit_log, sent, logs, job>>

\* The page of a thread after the service stores one more message.
Stored(conv, m) ==
    LET all == <<m>> \o conv
    IN SubSeq(all, 1, IF Len(all) < PageLimit THEN Len(all) ELSE PageLimit)

\* handle_message lines 365-369: messages.create(thread_id, role="user", ...).
AppendMessage(t) ==
    /\ task[t].pc = "append"
    /\ \/ /\ convs' = [convs EXCEPT ![task[t].thread_id] =
                          Stored(@, Msg("user", UserContent, t))]
          /\ Goto(t, "run")
       \/ /\ Raise(t, "except")
          /\ UNCHANGED convs
    /\ UNCHANGED <<usage_file, user_threads, nthreads, runs, clock, budget,
                   admit_log, sent, handles, logs, job>>

(* ------------------------------------------------------------------ *)
(* run_assistant.                                                      *)
(* ------------------------------------------------------------------ *)
\* Lines 174-177: runs.create(); the service queues the run.
RunCreate(t) ==
    /\ task[t].pc = "run"
    /\ \/ /\ runs' = [runs EXCEPT ![t] = [status |-> "queued", usage |-> NoUsage]]
          /\ SetTask(t, [task[t] EXCEPT !.pc = "poll", !.status = "queued",
                                        !.usage = NoUsage])
       \/ /\ Raise(t, "except")
          /\ UNCHANGED runs
    /\ UNCHANGED <<usage_file, user_threads, nthreads, convs, clock, budget,
                   admit_log, sent, handles, logs, job>>

\* Faulty variant: the loop goes on only while the run is queued.
KeepsPolling_queued(status) == status = "queued"

\* The loop condition of line 179.
KeepsPolling(status) == status \in PollingStatuses

\* The record of the registrations once a turn of user u, whose run the
\* service had accepted, goes to the except block: register_usage_after_response
\* was not called (line 373 not reached) or did not save.
Uncounted(u) == [sent EXCEPT ![u].lost = TRUE]

\* Lines 179-184: one pass of the loop, time.sleep(1) and runs.retrieve(),
\* which returns the run as the service has it.
PollRead(t) ==
    /\ task[t].pc = "poll"
    /\ KeepsPolling(task[t].status)
    /\ SetTask(t, [task[t] EXCEPT !.status = runs[t].status,
                                  !.usage = runs[t].usage])
    /\ UNCHANGED <<usage_file, user_threads, nthreads, convs, runs, clock,
                   budget, admit_log, sent, handles, logs, job>>

\* One pass of the loop in which runs.retrieve() raises; nothing drives the
\* run any more.
PollRaise(t) ==
    /\ task[t].pc = "poll"
    /\ KeepsPolling(task[t].status)
    /\ Raise(t, "except")
    /\ runs' = [runs EXCEPT ![t] = NoRun]
    /\ sent' = Uncounted(task[t].user)
    /\ UNCHANGED <<usage_file, user_threads, nthreads, convs, clock,
                   budget, admit_log, handles, logs, job>>

Poll(t) == PollRead(t) \/ PollRaise(t)

\* Lines 186-205: after the loop, the reply and the tokens of the run.
RunFinish(t) ==
    /\ task[t].pc = "poll"
    /\ ~KeepsPolling(task[t].status)
    /\ \/ LET r == run_assistant_result(task[t].status, convs[task[t].thread_id],
                                        task[t].usage)
          IN /\ SetTask(t, [task[t] EXCEPT !.pc = "register",
                                           !.usage = NoUsage,
                                           !.respuesta = r.respuesta,
                                           !.tokens = r.tokens])
             /\ UNCHANGED sent
       \/ \* messages.list() raises
          /\ task[t].status = "completed"
          /\ Raise(t, "except")
          /\ sent' = Uncounted(task[t].user)
    /\ runs' = [runs EXCEPT ![t] = NoRun]
    /\ UNCHANGED <<usage_file, user_threads, nthreads, convs, clock,
                   budget, admit_log, handles, logs, job>>

\* The assistant service works on a run: a queued run starts, a run in
\* progress ends; a run that completes stores zero or one assistant message
\* in its thread and may report its token usage.
RemoteStep(t) ==
    /\ task[t].pc = "poll"
    /\ \/ /\ runs[t].status = "queued"
          /\ runs' = [runs EXCEPT ![t].status = "in_progress"]
          /\ UNCHANGED convs
       \/ /\ runs[t].status = "in_progress"
          /\ \E st \in EndStatuses \ {"completed"} :
                runs' = [runs EXCEPT ![t].status = st]
          /\ UNCHANGED convs
       \/ /\ runs[t].status = "in_progress"
          /\ \E u \in {NoUsage, Usage(RunTokens)} :
                runs' = [runs EXCEPT ![t] = [status |-> "completed", usage |-> u]]
          /\ \/ UNCHANGED convs
             \/ \E c \in AssistantContents :
                   convs' = [convs EXCEPT ![task[t].thread_id] =
                                Stored(@, Msg("assistant", c, t))]
    /\ UNCHANGED <<usage_file, user_threads, nthreads, clock, task, budget,
                   admit_log, sent, handles, logs, job>>

(* ------------------------------------------------------------------ *)
(* The rest of handle_message.                                         *)
(* ------------------------------------------------------------------ *)
\* What a call of register_usage_after_response of user u, whose second
\* datetime.now() returned now2, leaves in admit_log.
Registered(u, now2) ==
    IF now2 = clock
    THEN [admit_log EXCEPT ![u] = NoAdmit]
    ELSE [v \in Users |-> NoAdmit]

\* Faulty variant: a run that did not complete is not registered.
RegisterUsage_completed_only(t, now2) ==
    /\ task[t].pc = "register"
    /\ LET u == task[t].user IN
       IF load_usage_raises(usage_file)
       THEN /\ Raise(t, "except")
            /\ admit_log' = Registered(u, clock)
            /\ sent' = Uncounted(u)
            /\ UNCHANGED <<usage_file, clock>>
       ELSE IF task[t].status # "completed"
       THEN /\ Goto(t, "respond")
            /\ admit_log' = Registered(u, clock)
            /\ UNCHANGED <<usage_file, sent, clock>>
       ELSE \E how \in SaveOutcomes :
               /\ usage_file' =
                     save_usage(usage_file,
                                register_usage_after_response(
                                    load_usage(usage_file), u, task[t].tokens,
                                    clock, now2),
                                how)
               /\ admit_log' = Registered(u, now2)
               /\ clock' = now2
               /\ IF how = "ok"
                  THEN /\ Goto(t, "respond")
                       /\ sent' = [sent EXCEPT ![u] =
                                      [@ EXCEPT !.n = @ + 1, !.tok = @ + task[t].tokens]]
                  ELSE Raise(t, "except") /\ sent' = Uncounted(u)
    /\ UNCHANGED <<user_threads, nthreads, convs, runs, budget, handles, logs, job>>

\* Line 373: register_usage_after_response(user_id, tokens). The first
\* datetime.now() of _ensure_usage_structure returns the date of the clock,
\* the second one now2, which the clock shows from then on.
RegisterUsage(t, now2) ==
    /\ task[t].pc = "register"
    /\ LET u == task[t].user IN
       IF load_usage_raises(usage_file)
       THEN /\ Raise(t, "except")
            /\ admit_log' = Registered(u, clock)
            /\ sent' = Uncounted(u)
            /\ UNCHANGED <<usage_file, clock>>
       ELSE \E how \in SaveOutcomes :
               /\ usage_file' =
                     save_usage(usage_file,
                                register_usage_after_response(
                                    load_usage(usage_file), u, task[t].tokens,
                                    clock, now2),
                                how)
               /\ admit_log' = Registered(u, now2)
               /\ clock' = now2
               /\ IF how = "ok"
                  THEN /\ Goto(t, "respond")
                       /\ sent' = [sent EXCEPT ![u] =
                                      [@ EXCEPT !.n = @ + 1, !.tok = @ + task[t].tokens]]
                  ELSE Raise(t, "except") /\ sent' = Uncounted(u)
    /\ UNCHANGED <<user_threads, nthreads, convs, runs, budget, handles, logs, job>>

\* Lines 375-376: log_message and reply_text(respuesta), inside the try block.
Respond(t) ==
    /\ task[t].pc = "respond"
    /\ \/ Finish(t, task[t].respuesta)
       \/ Raise(t, "except")
    /\ logs' = logs \cup {task[t].user}
    /\ UNCHANGED <<usage_file, user_threads, nthreads, convs, runs, clock,
                   budget, admit_log, sent, handles, job>>

\* Lines 378-382: the except block sends the communication-error reply.
ReplyError(t) ==
    /\ task[t].pc = "except"
    /\ \/ Finish(t, CommErrorMsg)
       \/ Raise(t, "raised")
    /\ UNCHANGED <<usage_file, user_threads, nthreads, convs, runs, clock,
                   budget, admit_log, sent, handles, logs, job>>

\* The messages of a thread once the handler of task t is over.
Earlier(conv, t) ==
    [i \in 1..Len(conv) |->
        IF conv[i].turn = t THEN [conv[i] EXCEPT !.turn = 0] ELSE conv[i]]

\* The handler coroutine ends: it returned ("done") or an exception left it
\* ("raised"); the dispatcher takes the next update.
Return(t) ==
    /\ task[t].pc \in {"done", "raised"}
    /\ SetTask(t, IdleTask)
    /\ convs' = [h \in DOMAIN convs |-> Earlier(convs[h], t)]
    /\ UNCHANGED <<usage_file, user_threads, nthreads, runs, clock,
                   budget, admit_log, sent, handles, logs, job>>

(* ------------------------------------------------------------------ *)
(* /start and /reset.                                                  *)
(* ------------------------------------------------------------------ *)
\* The texts of lines 336-342 and 348, line by line.
WelcomeMsg ==
    <<"Hola! Soy el asistente oficial de la tienda online.",
      "Puedo ayudarte con productos, pedidos, envios, devoluciones y mucho mas.",
      "",
      "Comandos disponibles:",
      "/start - Mostrar este mensaje",
      "/reset - Reiniciar el contexto de la conversacion">>
ResetDoneMsg == <<"El contexto ha sido reiniciado. Empecemos de nuevo.">>

\* start() up to its await (lines 333-336): get_or_create_thread returns and
\* the handler is suspended in reply_text with the welcome text, or
\* threads.create() raises and the exception leaves the handler. The await
\* ends in Say.
Start(t, u) ==
    /\ Dispatchable(t)
    /\ Delivered
    /\ \/ /\ u \in DOMAIN user_threads \/ ThreadCreatable
          /\ LET g == get_or_create_thread(u)
             IN /\ user_threads' = g.map
                /\ nthreads' = g.n
                /\ handles' = Got(u, g)
                /\ SetTask(t, [IdleTask EXCEPT !.pc = "say", !.kind = "start",
                                               !.user = u, !.thread_id = g.id,
                                               !.respuesta = WelcomeMsg])
       \/ /\ u \notin DOMAIN user_threads
          /\ SetTask(t, [IdleTask EXCEPT !.pc = "raised", !.kind = "start", !.user = u])
          /\ UNCHANGED <<user_threads, nthreads, handles>>
    /\ UNCHANGED <<usage_file, convs, runs, clock, admit_log, sent, logs, job>>

\* reset() up to its await (lines 346-348): reset_thread returns and the
\* handler is suspended in reply_text with the confirmation text, or
\* threads.create() raises and the exception leaves the handler. The await
\* ends in Say.
Reset(t, u) ==
    /\ Dispatchable(t)
    /\ Delivered
    /\ \/ /\ ThreadCreatable
          /\ LET g == reset_thread(u)
             IN /\ user_threads' = g.map
                /\ nthreads' = g.n
                /\ handles' = Replaced(u, g)
                /\ SetTask(t, [IdleTask EXCEPT !.pc = "say", !.kind = "reset",
                                               !.user = u, !.thread_id = g.id,
                                               !.respuesta = ResetDoneMsg])
       \/ /\ SetTask(t, [IdleTask EXCEPT !.pc = "raised", !.kind = "reset", !.user = u])
          /\ UNCHANGED <<user_threads, nthreads, handles>>
    /\ UNCHANGED <<usage_file, convs, runs, clock, admit_log, sent, logs, job>>

(* ------------------------------------------------------------------ *)
(* Reports for the administrator: the weekly report, /userstats, the   *)
(* statistics button and the charts. A report text is its heading      *)
(* followed by the numbers it shows.                                   *)
(* ------------------------------------------------------------------ *)
NoPermissionMsg == <<"No tienes permiso.">>
NoChartPermissionMsg == <<"No tienes permiso para ver graficos.">>
UserStatsUsageMsg == <<"Uso: /userstats <telegram_id>">>
NotFoundMsg == <<"Usuario no encontrado en el registro.">>
NoChartDataMsg == <<"Aun no hay datos para generar graficos.">>
GeneratingMsg == <<"Generando graficos...">>

\* The administrator is one of the users.
ADMIN_USER_ID == DayUser
is_admin(user_id) == user_id = ADMIN_USER_ID

RECURSIVE SumField(_, _, _)
\* sum(usage[k].get(field, 0) for k in keys)
SumField(usage, keys, field) ==
    IF keys = {} THEN 0
    ELSE LET k == CHOOSE x \in keys : TRUE
         IN usage[k][field] + SumField(usage, keys \ {k}, field)

\* generate_weekly_report_text: per user the monthly messages and tokens.
generate_weekly_report_text(usage) ==
    <<"Informe semanal",
      [k \in DOMAIN usage |-> <<usage[k].monthly, usage[k].tokens_month>>]>>

\* The text of /userstats for the record of target.
UserStatsText(target, usage) ==
    <<"Estadisticas del usuario", target, usage.daily, usage.monthly,
      usage.tokens_today, usage.tokens_month>>

\* The text of the statistics button: users, messages and tokens of the month.
StatsText(usage) ==
    <<"Estadisticas generales", Cardinality(DOMAIN usage),
      SumField(usage, DOMAIN usage, "monthly"),
      SumField(usage, DOMAIN usage, "tokens_month")>>

\* The data of the three charts: tokens of the month per user, messages per
\* stored day, and the tokens of the users that have any. NoChart is None:
\* there is no chart for an empty usage dict, and no pie without tokens.
NoChart == <<>>
generate_bar_chart(usage) ==
    IF usage = EmptyDict THEN NoChart
    ELSE <<[k \in DOMAIN usage |-> usage[k].tokens_month]>>
generate_line_chart(usage) ==
    LET days == {usage[k].last_day : k \in DOMAIN usage}
    IN IF usage = EmptyDict \/ days = {} THEN NoChart
       ELSE <<[d \in days |->
                 SumField(usage, {k \in DOMAIN usage : usage[k].last_day = d}, "daily")]>>
generate_pie_chart(usage) ==
    LET users == {k \in DOMAIN usage : usage[k].tokens_month > 0}
    IN IF usage = EmptyDict \/ users = {} THEN NoChart
       ELSE <<[k \in users |-> usage[k].tokens_month]>>

\* The charts in the order the handlers send them, each in an await of its
\* own (reply_photo): pc is the chart whose photo is being sent.
ChartOrder == <<"bar", "line", "pie">>
ChartPcs == {"bar", "line", "pie"}
Chart(pc, usage) ==
    CASE pc = "bar" -> generate_bar_chart(usage)
      [] pc = "line" -> generate_line_chart(usage)
      [] pc = "pie" -> generate_pie_chart(usage)
Position(pc) == CHOOSE i \in 1..Len(ChartOrder) : ChartOrder[i] = pc
\* Where the handler is after the i-th chart: at the send of the next chart
\* there is (if bar: ..., if line: ..., if pie: ...), or at its end.
NextChartPc(usage, i) ==
    LET js == {j \in (i + 1)..Len(ChartOrder) : Chart(ChartOrder[j], usage) # NoChart}
    IN IF js = {} THEN "done"
       ELSE ChartOrder[CHOOSE j \in js : \A k \in js : j <= k]

\* A handler suspended in the await of its only text reply, and one that an
\* exception has left.
Saying(kind, u, text) ==
    [IdleTask EXCEPT !.pc = "say", !.kind = kind, !.user = u, !.respuesta = text]
Raised(kind, u) == [IdleTask EXCEPT !.pc = "raised", !.kind = kind, !.user = u]

\* Faulty variant: /userstats reconciles the record it shows and saves it.
userstats_reconciles(u, target) ==
    IF ~is_admin(u) THEN Saying("userstats", u, NoPermissionMsg)
    ELSE IF target = 0 THEN Saying("userstats", u, UserStatsUsageMsg)
    ELSE IF load_usage_raises(usage_file) THEN Raised("userstats", u)
    ELSE IF target \notin DOMAIN load_usage(usage_file)
    THEN Saying("userstats", u, NotFoundMsg)
    ELSE Saying("userstats", u,
                UserStatsText(target,
                    _ensure_usage_structure(load_usage(usage_file), target,
                                            clock, clock)[target]))

\* userstats() up to its await: /userstats <telegram_id> of user u for the
\* record of target (target 0: the command came without an argument).
userstats(u, target) ==
    IF ~is_admin(u) THEN Saying("userstats", u, NoPermissionMsg)
    ELSE IF target = 0 THEN Saying("userstats", u, UserStatsUsageMsg)
    ELSE IF load_usage_raises(usage_file) THEN Raised("userstats", u)
    ELSE IF target \notin DOMAIN load_usage(usage_file)
    THEN Saying("userstats", u, NotFoundMsg)
    ELSE Saying("userstats", u, UserStatsText(target, load_usage(usage_file)[target]))

\* charts_command() up to its first await.
charts_command(u) ==
    IF ~is_admin(u) THEN Saying("charts", u, NoChartPermissionMsg)
    ELSE IF load_usage_raises(usage_file) THEN Raised("charts", u)
    ELSE IF load_usage(usage_file) = EmptyDict THEN Saying("charts", u, NoChartDataMsg)
    ELSE [IdleTask EXCEPT !.pc = NextChartPc(load_usage(usage_file), 0),
                          !.kind = "charts", !.user = u,
                          !.loaded = load_usage(usage_file)]

\* button_handler() from the return of query.answer() to its next await, for
\* data == "stats" (kind "stats") and data == "charts" (kind "chartsbutton").
button_handler(kind, u) ==
    IF ~is_admin(u) THEN Saying(kind, u, NoPermissionMsg)
    ELSE IF load_usage_raises(usage_file) THEN Raised(kind, u)
    ELSE IF kind = "stats" THEN Saying(kind, u, StatsText(load_usage(usage_file)))
    ELSE IF load_usage(usage_file) = EmptyDict THEN Saying(kind, u, NoChartDataMsg)
    ELSE [IdleTask EXCEPT !.pc = "generating", !.kind = kind, !.user = u,
                          !.loaded = load_usage(usage_file)]

\* Faulty variant: /userstats reconciles the record it shows and saves it.
UserStats_reconciles(t, u, target) ==
    /\ Dispatchable(t)
    /\ Delivered
    /\ SetTask(t, userstats_reconciles(u, target))
    /\ usage_file' =
          IF userstats_reconciles(u, target).pc = "say"
             /\ Len(userstats_reconciles(u, target).respuesta) > 1
          THEN OkFile(_ensure_usage_structure(load_usage(usage_file), target,
                                              clock, clock))
          ELSE usage_file
    /\ UNCHANGED <<user_threads, nthreads, convs, runs, clock,
                   admit_log, sent, handles, logs, job>>

\* The dispatcher starts userstats(): it runs to its await.
UserStats(t, u, target) ==
    /\ Dispatchable(t)
    /\ Delivered
    /\ SetTask(t, userstats(u, target))
    /\ UNCHANGED <<usage_file, user_threads, nthreads, convs, runs, clock,
                   admit_log, sent, handles, logs, job>>

\* The dispatcher starts charts_command(): it runs to its first await.
Charts(t, u) ==
    /\ Dispatchable(t)
    /\ Delivered
    /\ SetTask(t, charts_command(u))
    /\ UNCHANGED <<usage_file, user_threads, nthreads, convs, runs, clock,
                   admit_log, sent, handles, logs, job>>

\* The dispatcher starts button_handler() with data == "stats": it runs to
\* await query.answer().
StatsButton(t, u) ==
    /\ Dispatchable(t)
    /\ Delivered
    /\ SetTask(t, [IdleTask EXCEPT !.pc = "answer", !.kind = "stats", !.user = u])
    /\ UNCHANGED <<usage_file, user_threads, nthreads, convs, runs, clock,
                   admit_log, sent, handles, logs, job>>

\* The same with data == "charts".
ChartsButton(t, u) ==
    /\ Dispatchable(t)
    /\ Delivered
    /\ SetTask(t, [IdleTask EXCEPT !.pc = "answer", !.kind = "chartsbutton",
                                  !.user = u])
    /\ UNCHANGED <<usage_file, user_threads, nthreads, convs, runs, clock,
                   admit_log, sent, handles, logs, job>>

\* query.answer() returns or raises; button_handler goes on to its next await.
ButtonAnswered(t) ==
    /\ task[t].pc = "answer"
    /\ \/ Raise(t, "raised")
       \/ SetTask(t, button_handler(task[t].kind, task[t].user))
    /\ UNCHANGED <<usage_file, user_threads, nthreads, convs, runs, clock,
                   budget, admit_log, sent, handles, logs, job>>

\* The await of the only text reply of a handler (reply_text or
\* edit_message_text) returns, and the handler with it, or raises.
Say(t) ==
    /\ task[t].pc = "say"
    /\ \/ Finish(t, task[t].respuesta)
       \/ Raise(t, "raised")
    /\ UNCHANGED <<usage_file, user_threads, nthreads, convs, runs, clock,
                   budget, admit_log, sent, handles, logs, job>>

\* button_handler, data == "charts": edit_message_text("Generando graficos...")
\* returns or raises; the handler goes on to the first chart.
Generating(t) ==
    /\ task[t].pc = "generating"
    /\ \/ SetTask(t, [task[t] EXCEPT !.reply = GeneratingMsg,
                                    !.pc = NextChartPc(task[t].loaded, 0)])
       \/ Raise(t, "raised")
    /\ UNCHANGED <<usage_file, user_threads, nthreads, convs, runs, clock,
                   budget, admit_log, sent, handles, logs, job>>

\* reply_photo of the chart the handler is at returns, and the handler goes on
\* to the next chart or to its end, or raises: the photos sent before stay sent.
SendPhoto(t) ==
    /\ task[t].pc \in ChartPcs
    /\ \/ LET next == NextChartPc(task[t].loaded, Position(task[t].pc))
          IN SetTask(t, [task[t] EXCEPT
                            !.photos = Append(@, <<task[t].pc,
                                                   Chart(task[t].pc, task[t].loaded)>>),
                            !.pc = next,
                            !.loaded = IF next = "done" THEN EmptyDict ELSE @])
       \/ Raise(t, "raised")
    /\ UNCHANGED <<usage_file, user_threads, nthreads, convs, runs, clock,
                   budget, admit_log, sent, handles, logs, job>>

\* weekly_report(), the job of the job queue (run_daily in main): it is not
\* an update and runs when it is due, also while handlers are suspended in an
\* await, never inside a call that holds the event loop. An exception in it
\* is logged inside the job (except Exception).
JobMayRun == \A o \in Tasks : ~InSync(o)

\* The job has ended.
JobOver == [IdleJob EXCEPT !.ran = TRUE]

\* The job starts: generate_weekly_report_text(), then await send_message.
WeeklyReport ==
    /\ job.pc = "idle"
    /\ ~job.ran
    /\ JobMayRun
    /\ job' = IF load_usage_raises(usage_file)
              THEN JobOver
              ELSE [JobOver EXCEPT
                       !.pc = "send",
                       !.report = generate_weekly_report_text(load_usage(usage_file))]
    /\ UNCHANGED <<usage_file, user_threads, nthreads, convs, runs, clock, task,
                   budget, admit_log, sent, handles, logs>>

\* send_message returns or raises; the job lists logs/ and goes on to the
\* first log file, or ends when there is none.
WeeklyReportSent ==
    /\ job.pc = "send"
    /\ JobMayRun
    /\ \/ job' = JobOver
       \/ job' = IF logs = {} THEN JobOver
                 ELSE [job EXCEPT !.pc = "docs", !.files = logs]
    /\ UNCHANGED <<usage_file, user_threads, nthreads, convs, runs, clock, task,
                   budget, admit_log, sent, handles, logs>>

\* send_document of one log file returns, and the job goes on to the next
\* file or ends, or raises.
WeeklyReportDoc ==
    /\ job.pc = "docs"
    /\ JobMayRun
    /\ \/ job' = JobOver
       \/ \E f \in job.files :
             job' = IF job.files = {f} THEN JobOver
                    ELSE [job EXCEPT !.files = @ \ {f}]
    /\ UNCHANGED <<usage_file, user_threads, nthreads, convs, runs, clock, task,
                   budget, admit_log, sent, handles, logs>>

(* ------------------------------------------------------------------ *)
(* The calendar.                                                       *)
(* ------------------------------------------------------------------ *)
\* The dates a datetime.now() can return after an earlier one of the same
\* call returned the date of the clock: that date, or a later one.
SecondReads == {clock} \cup {now \in Dates : Before(clock, now)}

\* The local date changes (midnight, or the system clock is set).
Tick ==
    /\ \E now \in Dates : Before(clock, now) /\ clock' = now
    /\ admit_log' = [u \in Users |-> NoAdmit]
    /\ UNCHANGED <<usage_file, user_threads, nthreads, convs, runs, task,
                   budget, sent, handles, logs, job>>

(* ------------------------------------------------------------------ *)
(* Specifications.                                                     *)
(* ------------------------------------------------------------------ *)
Next ==
    \/ \E t \in Tasks, u \in Users : Receive(t, u)
    \/ \E t \in Tasks, u \in Users : Start(t, u)
    \/ \E t \in Tasks, u \in Users : Reset(t, u)
    \/ \E t \in Tasks : Say(t)
    \/ \E t \in Tasks, now2 \in SecondReads : CheckAdmission(t, now2)
    \/ \E t \in Tasks : ReplyLimit(t)
    \/ \E t \in Tasks : Typing(t)
    \/ \E t \in Tasks : GetThread(t)
    \/ \E t \in Tasks : AppendMessage(t)
    \/ \E t \in Tasks : RunCreate(t)
    \/ \E t \in Tasks : Poll(t)
    \/ \E t \in Tasks : RunFinish(t)
    \/ \E t \in Tasks : RemoteStep(t)
    \/ \E t \in Tasks, now2 \in SecondReads : RegisterUsage(t, now2)
    \/ \E t \in Tasks : Respond(t)
    \/ \E t \in Tasks : ReplyError(t)
    \/ \E t \in Tasks : Return(t)
    \/ Tick

Spec == Init /\ [][Next]_vars

(* ------------------------------------------------------------------ *)
(* The administrator's side: the reporting handlers and the job        *)
(* weekly_report, next to text messages of one user that change what   *)
(* they read, while the date changes.                                  *)
(* ------------------------------------------------------------------ *)
\* usage.json when the process starts: not there, truncated, or a document
\* with the record of one user or with records of all users.
AdminSeedFiles ==
    {MissingFile, CorruptFile}
    \cup {OkFile(data) : data \in [{DayUser} -> SeedRecords]}
    \cup {OkFile([u \in Users |-> r]) : r \in SeedRecords}

InitAdmin ==
    /\ InitCommon
    /\ usage_file \in AdminSeedFiles
    /\ logs \in SeedLogs(usage_file)
    /\ budget = [limited |-> TRUE, left |-> AdminUpdates]

NextAdmin ==
    \/ \E t \in Tasks : Receive(t, DayUser)
    \/ \E t \in Tasks, now2 \in SecondReads : CheckAdmission(t, now2)
    \/ \E t \in Tasks : ReplyLimit(t)
    \/ \E t \in Tasks : Typing(t)
    \/ \E t \in Tasks : GetThread(t)
    \/ \E t \in Tasks : AppendMessage(t)
    \/ \E t \in Tasks : RunCreate(t)
    \/ \E t \in Tasks : Poll(t)
    \/ \E t \in Tasks : RunFinish(t)
    \/ \E t \in Tasks : RemoteStep(t)
    \/ \E t \in Tasks, now2 \in SecondReads : RegisterUsage(t, now2)
    \/ \E t \in Tasks : Respond(t)
    \/ \E t \in Tasks : ReplyError(t)
    \/ \E t \in Tasks : Return(t)
    \/ \E t \in Tasks, u \in Users, target \in Users \cup {0} : UserStats(t, u, target)
    \/ \E t \in Tasks, u \in Users : StatsButton(t, u)
    \/ \E t \in Tasks, u \in Users : Charts(t, u)
    \/ \E t \in Tasks, u \in Users : ChartsButton(t, u)
    \/ \E t \in Tasks : ButtonAnswered(t)
    \/ \E t \in Tasks : Say(t)
    \/ \E t \in Tasks : Generating(t)
    \/ \E t \in Tasks : SendPhoto(t)
    \/ WeeklyReport
    \/ WeeklyReportSent
    \/ WeeklyReportDoc
    \/ Tick

SpecAdmin == InitAdmin /\ [][NextAdmin]_vars

(* ------------------------------------------------------------------ *)
(* One user, one calendar day, no usage.json at the start: the user    *)
(* sends text messages one after another, as many as they like.        *)
(* ------------------------------------------------------------------ *)
InitDay ==
    /\ InitCommon
    /\ usage_file = MissingFile
    /\ logs \in SeedLogs(usage_file)
    /\ budget = [limited |-> FALSE, left |-> 0]

NextDay ==
    \/ \E t \in Tasks : Receive(t, DayUser)
    \/ \E t \in Tasks : CheckAdmission(t, clock)
    \/ \E t \in Tasks : ReplyLimit(t)
    \/ \E t \in Tasks : Typing(t)
    \/ \E t \in Tasks : GetThread(t)
    \/ \E t \in Tasks : AppendMessage(t)
    \/ \E t \in Tasks : RunCreate(t)
    \/ \E t \in Tasks : Poll(t)
    \/ \E t \in Tasks : RunFinish(t)
    \/ \E t \in Tasks : RemoteStep(t)
    \/ \E t \in Tasks : RegisterUsage(t, clock)
    \/ \E t \in Tasks : Respond(t)
    \/ \E t \in Tasks : ReplyError(t)
    \/ \E t \in Tasks : Return(t)

SpecDay == InitDay /\ [][NextDay]_vars

(* ------------------------------------------------------------------ *)
(* The polling loop under fair scheduling: the handler in the loop     *)
(* reads a status of the run that is new to it and leaves the loop     *)
(* when it may, and the assistant service keeps working on a run it    *)
(* has accepted until the run ends. A pass of the loop that reads the  *)
(* status already seen changes nothing.                                *)
(* ------------------------------------------------------------------ *)
InitLive ==
    /\ InitCommon
    /\ usage_file \in SeedFiles
    /\ logs \in SeedLogs(usage_file)
    /\ budget = [limited |-> TRUE, left |-> MaxUpdates + 1]

SpecLive ==
    /\ InitLive
    /\ [][NextDay]_vars
    /\ \A t \in Tasks : WF_vars(PollRead(t)) /\ WF_vars(RunFinish(t))
    /\ \A t \in Tasks : WF_vars(RemoteStep(t))

(* ------------------------------------------------------------------ *)
(* The thread map over several updates: /start and /reset of the      *)
(* users and text messages of one of them, in any order, no usage.json *)
(* at the start.                                                       *)
(* ------------------------------------------------------------------ *)
InitSession ==
    /\ InitCommon
    /\ usage_file = MissingFile
    /\ logs \in SeedLogs(usage_file)
    /\ budget = [limited |-> TRUE, left |-> SessionUpdates]

NextSession ==
    \/ \E t \in Tasks : Receive(t, DayUser)
    \/ \E t \in Tasks, u \in Users : Start(t, u)
    \/ \E t \in Tasks, u \in Users : Reset(t, u)
    \/ \E t \in Tasks : Say(t)
    \/ \E t \in Tasks : CheckAdmission(t, clock)
    \/ \E t \in Tasks : ReplyLimit(t)
    \/ \E t \in Tasks : Typing(t)
    \/ \E t \in Tasks : GetThread(t)
    \/ \E t \in Tasks : AppendMessage(t)
    \/ \E t \in Tasks : RunCreate(t)
    \/ \E t \in Tasks : Poll(t)
    \/ \E t \in Tasks : RunFinish(t)
    \/ \E t \in Tasks : RemoteStep(t)
    \/ \E t \in Tasks : RegisterUsage(t, clock)
    \/ \E t \in Tasks : Respond(t)
    \/ \E t \in Tasks : ReplyError(t)
    \/ \E t \in Tasks : Return(t)

SpecSession == InitSession /\ [][NextSession]_vars

(* ------------------------------------------------------------------ *)
(* The usage store on its own: can_user_continue and                   *)
(* register_usage_after_response called for the users in any order,    *)
(* from no usage.json, while the local date is set to any date, later  *)
(* or earlier.                                                         *)
(* ------------------------------------------------------------------ *)
\* can_user_continue(u) returns; its second datetime.now() returned now2.
StoreCheck(u, now2) ==
    /\ ~load_usage_raises(usage_file)
    /\ admit_log' = Admitted(u, can_user_continue(load_usage(usage_file), u,
                                                  clock, now2), now2)
    /\ clock' = now2
    /\ UNCHANGED <<usage_file, user_threads, nthreads, convs, runs, task,
                   budget, sent, handles, logs, job>>

\* register_usage_after_response(u, tokens_used) returns or raises; its second
\* datetime.now() returned now2.
StoreRegister(u, tokens_used, now2) ==
    /\ ~load_usage_raises(usage_file)
    /\ sent[u].n < MaxRegs
    /\ \E how \in SaveOutcomes :
          /\ usage_file' =
                save_usage(usage_file,
                           register_usage_after_response(
                               load_usage(usage_file), u, tokens_used, clock, now2),
                           how)
          /\ sent' = IF how = "ok"
                     THEN [sent EXCEPT ![u] = [@ EXCEPT !.n = @ + 1, !.tok = @ + tokens_used]]
                     ELSE sent
    /\ admit_log' = Registered(u, now2)
    /\ clock' = now2
    /\ UNCHANGED <<user_threads, nthreads, convs, runs, task, budget, handles, logs, job>>

\* The local date is set to another date.
ClockSet(now) ==
    /\ now # clock
    /\ clock' = now
    /\ admit_log' = [u \in Users |-> NoAdmit]
    /\ UNCHANGED <<usage_file, user_threads, nthreads, convs, runs, task,
                   budget, sent, handles, logs, job>>

NextStore ==
    \/ \E u \in Users, now2 \in Dates : StoreCheck(u, now2)
    \/ \E u \in Users, tokens_used \in {0, RunTokens}, now2 \in Dates :
          StoreRegister(u, tokens_used, now2)
    \/ \E now \in Dates : ClockSet(now)

SpecStore == InitDay /\ [][NextStore]_vars

(* ================================================================== *)
(* Properties.                                                         *)
(* ================================================================== *)
\* The usage dict a handler loads now, and a user's record as
\* _ensure_usage_structure leaves it now.
Loadable == ~load_usage_raises(usage_file)
Loaded == load_usage(usage_file)
ReconciledBy(u, now2) == _ensure_usage_structure(Loaded, u, clock, now2)[u]
Reconciled(u) == ReconciledBy(u, clock)
UnderAllLimits(r) ==
    /\ r.daily < DAILY_MSG_LIMIT
    /\ r.monthly < MONTHLY_MSG_LIMIT
    /\ r.tokens_month < MONTHLY_TOKEN_LIMIT
\* The step in which task t's can_user_continue returns.
Checked(t) == task[t].pc = "check" /\ task'[t].pc \in {"typing", "limit"}

\* C1: can_user_continue returns true exactly when the reconciled record is
\* under all three limits (daily messages, monthly messages, monthly tokens);
\* one counter at or above its limit gives false whatever the other two are,
\* and the value of tokens_today does not change the answer.
C1_AdmissionIsConjunction ==
    Loadable =>
        \A u \in Users, now2 \in SecondReads :
            LET ok == can_user_continue(Loaded, u, clock, now2)
                e == ReconciledBy(u, now2)
            IN /\ ok <=> UnderAllLimits(e)
               /\ \/ e.daily >= DAILY_MSG_LIMIT
                  \/ e.monthly >= MONTHLY_MSG_LIMIT
                  \/ e.tokens_month >= MONTHLY_TOKEN_LIMIT
                  => ~ok
               /\ u \in DOMAIN Loaded =>
                     \A x \in {0, MONTHLY_TOKEN_LIMIT} :
                         can_user_continue(
                             [Loaded EXCEPT ![u].tokens_today = x], u, clock, now2)
                         = ok

\* C1 witness: a check has just refused a user whose record is at the monthly
\* message limit and under the two other limits.
C1_Witness ==
    \E t \in Tasks :
        /\ task[t].pc = "limit"
        /\ Loadable
        /\ Reconciled(task[t].user).monthly >= MONTHLY_MSG_LIMIT
        /\ Reconciled(task[t].user).daily < DAILY_MSG_LIMIT
        /\ Reconciled(task[t].user).tokens_month < MONTHLY_TOKEN_LIMIT

\* C2: a user with no record sends messages one after another within one day.
\* Every registration that is saved raises daily and monthly by 1 and
\* tokens_today and tokens_month by the tokens of the run, so after k of them
\* the stored daily count is k and tokens_today is the sum of their tokens;
\* the check admits the user while fewer than DAILY_MSG_LIMIT messages are
\* registered and refuses the next one (the token limit not reached), and no
\* check changes the stored document.
C2_DayOfMessages ==
    /\ [](/\ usage_file.st = "missing" => sent[DayUser].n = 0
          /\ usage_file.st = "ok" =>
                /\ DayUser \in DOMAIN usage_file.data
                /\ usage_file.data[DayUser].daily = sent[DayUser].n
                /\ usage_file.data[DayUser].monthly = sent[DayUser].n
                /\ usage_file.data[DayUser].tokens_today = sent[DayUser].tok
                /\ usage_file.data[DayUser].tokens_month = sent[DayUser].tok
          /\ admit_log[DayUser].last = "yes" => sent[DayUser].n < DAILY_MSG_LIMIT
          /\ admit_log[DayUser].last = "no" /\ sent[DayUser].tok < MONTHLY_TOKEN_LIMIT
                => sent[DayUser].n = DAILY_MSG_LIMIT)
    /\ [][\A t \in Tasks : Checked(t) => usage_file' = usage_file]_vars

\* C2 witness: DAILY_MSG_LIMIT messages are registered, the stored daily count
\* is DAILY_MSG_LIMIT, and the check of the next message has just refused it.
C2_Witness ==
    \E t \in Tasks :
        /\ task[t].pc = "limit"
        /\ sent[DayUser].n = DAILY_MSG_LIMIT
        /\ sent[DayUser].tok = RunTokens
        /\ usage_file.st = "ok"
        /\ usage_file.data[DayUser].daily = DAILY_MSG_LIMIT
        /\ usage_file.data[DayUser].tokens_today = RunTokens

\* C3: _ensure_usage_structure zeroes daily and tokens_today and stamps today
\* exactly when the stored day differs from today, and zeroes monthly and
\* tokens_month and stamps the month exactly when the stored month differs
\* from the current month; each test is made whatever the other one found.
\* today is the day its first reading of the clock gave and the current month
\* the month its second reading gave, whatever date that is.
C3_WindowReconciliation ==
    Loadable =>
        \A u \in DOMAIN Loaded, now2 \in Dates :
            LET r == Loaded[u]
                e == ReconciledBy(u, now2)
                today == TodayStamp(clock)
                month == MonthStamp(now2)
            IN /\ r.last_day # today =>
                     /\ e.daily = 0
                     /\ e.tokens_today = 0
               /\ r.last_day = today =>
                     /\ e.daily = r.daily
                     /\ e.tokens_today = r.tokens_today
               /\ e.last_day = today
               /\ r.last_month # month =>
                     /\ e.monthly = 0
                     /\ e.tokens_month = 0
               /\ r.last_month = month =>
                     /\ e.monthly = r.monthly
                     /\ e.tokens_month = r.tokens_month
               /\ e.last_month = month

\* C3 witness: a handler has reconciled (in its check) a record with counts
\* above zero that was stamped on an earlier day of the current month.
C3_Witness ==
    \E t \in Tasks :
        /\ task[t].pc \in {"typing", "limit"}
        /\ Loadable
        /\ task[t].user \in DOMAIN Loaded
        /\ Loaded[task[t].user].last_day # TodayStamp(clock)
        /\ Loaded[task[t].user].last_month = MonthStamp(clock)
        /\ Loaded[task[t].user].daily > 0
        /\ Reconciled(task[t].user).daily = 0
        /\ Reconciled(task[t].user).monthly > 0

\* The steps of the handler of a refused message: the check that refuses it
\* and every later step of that handler.
RefusedStep(t) ==
    \/ task[t].pc = "check" /\ task'[t].pc = "limit"
    \/ task[t].pc = "limit" /\ task'[t] # task[t]

\* C4: when the check refuses a message, the handler changes nothing: the
\* usage file, the thread map, the threads and messages at the service and
\* the runs stay as they are, no usage is registered, and the handler ends
\* with the limit reply.
C4_RefusalChangesNothing ==
    [][\A t \in Tasks :
          RefusedStep(t) =>
              /\ UNCHANGED <<usage_file, user_threads, nthreads, convs, runs, sent>>
              /\ task'[t].pc \in {"limit", "done", "raised"}
              /\ task'[t].pc = "done" => task'[t].reply = LimitMsg]_vars

\* C4 witness: a handler has sent the limit reply and is about to return.
C4_Witness ==
    \E t \in Tasks :
        /\ task[t].pc = "done"
        /\ task[t].kind = "message"
        /\ task[t].reply = LimitMsg

\* C5 (as claimed): when can_user_continue returns, the stored document holds
\* a record of the user stamped with the current day and month.
C5_CheckStoresReconciledRecord ==
    [][\A t \in Tasks :
          Checked(t) =>
              /\ usage_file'.st = "ok"
              /\ task[t].user \in DOMAIN usage_file'.data
              /\ usage_file'.data[task[t].user].last_day = TodayStamp(clock)
              /\ usage_file'.data[task[t].user].last_month = MonthStamp(clock)]_vars

\* C6: a call of can_user_continue for a user that follows another one, with
\* no register_usage_after_response for the user and no change of date in
\* between, returns what the call before it returned.
C6_AdmissionIdempotent ==
    [][\A t \in Tasks :
          Checked(t) /\ admit_log[task[t].user].last # "none" =>
              admit_log'[task[t].user].last = admit_log[task[t].user].last]_vars

\* C6 witness: the user is one message short of the daily limit and has been
\* admitted by two checks in a row.
C6_Witness ==
    /\ admit_log[DayUser].again
    /\ admit_log[DayUser].last = "yes"
    /\ sent[DayUser].n = DAILY_MSG_LIMIT - 1

\* C7: run_assistant polls again exactly while the status it last saw is
\* queued or in_progress and leaves the loop with a result only on another
\* status; nothing else (no count, no timeout) ends the loop, so under fair
\* scheduling, with a service that keeps working on the run, a handler that
\* polls eventually stops polling.
C7_PollsUntilEnded ==
    /\ [][\A t \in Tasks :
            task[t].pc = "poll" /\ task'[t] # task[t] =>
                IF task[t].status \in PollingStatuses
                THEN \/ /\ task'[t].pc = "poll"
                        /\ task'[t].status = runs[t].status
                     \/ task'[t].pc = "except"
                ELSE task'[t].pc \in {"register", "except"}]_vars
    /\ \A t \in Tasks : (task[t].pc = "poll") ~> (task[t].pc # "poll")

\* C7 witness: a handler polled a run that was still queued, saw it in
\* progress, and is in the loop for another pass.
C7_Witness ==
    \E t \in Tasks :
        /\ task[t].pc = "poll"
        /\ task[t].status = "in_progress"
        /\ runs[t].status = "in_progress"

\* The reply the run driver is to give for a page of messages (newest first).
AssistantIndexes(data) == {i \in 1..Len(data) : data[i].role = "assistant"}
MostRecentAssistant(data) ==
    data[CHOOSE i \in AssistantIndexes(data) : \A j \in AssistantIndexes(data) : i <= j]
IsTextSegment(c) == c.type = "text"
RECURSIVE NewlineJoined(_, _)
NewlineJoined(segs, n) ==
    IF n = 0 THEN NoText
    ELSE IF n = 1 THEN segs[1].value
    ELSE NewlineJoined(segs, n - 1) \o <<"\n">> \o segs[n].value
ExpectedReply(data) ==
    IF AssistantIndexes(data) = {} THEN NoResponseMsg
    ELSE LET segs == SelectSeq(MostRecentAssistant(data).content, IsTextSegment)
         IN NewlineJoined(segs, Len(segs))

\* C8: when run_assistant returns, a run that ended in a status other than
\* completed gives the apology text and 0 tokens; a completed run gives the
\* text segments of the most recent assistant message joined by newlines
\* (other segments skipped), or the no-response text when the page holds no
\* assistant message, and the total tokens the run reports, 0 when it
\* reports none.
C8_TerminalMapping ==
    [][\A t \in Tasks :
          task[t].pc = "poll" /\ task'[t].pc = "register" =>
              /\ task[t].status \notin PollingStatuses
              /\ task[t].status # "completed" =>
                    /\ task'[t].respuesta = ApologyMsg
                    /\ task'[t].tokens = 0
              /\ task[t].status = "completed" =>
                    /\ task'[t].respuesta = ExpectedReply(convs[task[t].thread_id])
                    /\ task'[t].tokens =
                          IF runs[t].usage.avail THEN runs[t].usage.total ELSE 0]_vars

\* C8 witness: run_assistant has returned for a completed run that stored no
\* message of its own: the newest message is the user's, the reply is the
\* joined text of the assistant message before it, with the run's tokens.
C8_Witness ==
    \E t \in Tasks :
        /\ task[t].pc = "register"
        /\ task[t].status = "completed"
        /\ convs[task[t].thread_id][1].role = "user"
        /\ task[t].respuesta = <<"b", "\n", "a">>
        /\ task[t].tokens = RunTokens

\* A status that ends the loop without success.
EndedBadly(status) == status \notin PollingStatuses \cup {"none", "completed"}

\* C9: a handler whose run ended without success goes on to register usage
\* with 0 tokens: the saved record has daily and monthly one above the
\* reconciled record and the token counts as reconciled, nothing is
\* registered a second time, and the reply it sends is the apology text.
C9_FailedRunCountsAsMessage ==
    [][\A t \in Tasks :
          LET u == task[t].user IN
          /\ task[t].pc = "poll" /\ EndedBadly(task[t].status) /\ task'[t] # task[t] =>
                /\ task'[t].pc = "register"
                /\ task'[t].tokens = 0
                /\ task'[t].respuesta = ApologyMsg
          /\ task[t].pc = "register" /\ EndedBadly(task[t].status)
                /\ task'[t].pc = "respond" =>
                /\ usage_file'.st = "ok"
                /\ u \in DOMAIN usage_file'.data
                /\ usage_file'.data[u].daily = ReconciledBy(u, clock').daily + 1
                /\ usage_file'.data[u].monthly = ReconciledBy(u, clock').monthly + 1
                /\ usage_file'.data[u].tokens_today = ReconciledBy(u, clock').tokens_today
                /\ usage_file'.data[u].tokens_month = ReconciledBy(u, clock').tokens_month
                /\ sent'[u].n = sent[u].n + 1
          /\ task[t].pc \in {"respond", "done"} /\ EndedBadly(task[t].status) =>
                /\ usage_file' = usage_file
                /\ sent' = sent
                /\ task[t].pc = "respond" /\ task'[t].pc = "done" =>
                      task'[t].reply = ApologyMsg]_vars

\* C9 witness: the run failed, one message with no tokens is registered for
\* the user, and the handler has sent the apology text.
C9_Witness ==
    \E t \in Tasks :
        /\ task[t].pc = "done"
        /\ task[t].status = "failed"
        /\ task[t].reply = ApologyMsg
        /\ sent[task[t].user].n = 1
        /\ sent[task[t].user].tok = 0
        /\ usage_file.st = "ok"
        /\ usage_file.data[task[t].user].daily = DAILY_MSG_LIMIT

\* C10 (as claimed): no exception leaves handle_message.
C10_NoErrorLeavesHandler ==
    \A t \in Tasks : ~(task[t].kind = "message" /\ task[t].pc = "raised")

\* C11 (as claimed): a register_usage_after_response whose save_usage fails
\* leaves the stored document as it was before the call began: no record is
\* lost, truncated or partially written.
C11_FailedSaveKeepsStore ==
    [][\A t \in Tasks :
          task[t].pc = "register" /\ task'[t].pc = "except" =>
              usage_file' = usage_file]_vars

\* The step in which get_or_create_thread returns to the handler of task t
\* (handle_message or start), and the one in which reset_thread does (reset).
GetOrCreateReturns(t) ==
    /\ task[t].thread_id = 0
    /\ task'[t].thread_id # 0
    /\ task'[t].kind \in {"message", "start"}
ResetReturns(t) ==
    /\ task[t].pc = "idle"
    /\ task'[t].kind = "reset"
    /\ task'[t].thread_id # 0

\* C12: a get_or_create_thread(u) that follows another one, with no
\* reset_thread(u) between them, returns the thread id the one before it
\* returned and creates no thread at the service.
C12_SessionStability ==
    [][\A t \in Tasks :
          GetOrCreateReturns(t) /\ handles[task'[t].user].got # 0 =>
              /\ task'[t].thread_id = handles[task'[t].user].got
              /\ nthreads' = nthreads
              /\ user_threads' = user_threads]_vars

\* C12 witness: handle_message got the user's thread from the second
\* get_or_create_thread in a row, and the service has created one thread.
C12_Witness ==
    \E t \in Tasks :
        /\ task[t].pc = "append"
        /\ handles[task[t].user].again
        /\ task[t].thread_id = handles[task[t].user].got
        /\ user_threads[task[t].user] = task[t].thread_id
        /\ nthreads = 1

\* C13: reset_thread(u), when it returns, has created a thread at the service
\* and stored its id for u, whether or not u had one (an id stored before is
\* replaced by a different one); a get_or_create_thread(u) after it returns
\* that new id, which is not the id get_or_create_thread(u) returned before
\* the reset, and no id that a reset_thread(u) replaced is returned for u.
C13_SessionReset ==
    [][\A t \in Tasks :
          LET u == task'[t].user IN
          /\ ResetReturns(t) =>
                /\ nthreads' = nthreads + 1
                /\ u \in DOMAIN user_threads'
                /\ user_threads'[u] = nthreads'
                /\ task'[t].thread_id = nthreads'
                /\ u \in DOMAIN user_threads => user_threads'[u] # user_threads[u]
                /\ \A v \in DOMAIN user_threads \ {u} :
                      v \in DOMAIN user_threads' /\ user_threads'[v] = user_threads[v]
          /\ GetOrCreateReturns(t) =>
                /\ task'[t].thread_id \notin handles[u].old
                /\ task'[t].thread_id # handles[u].before
                /\ handles[u].got = 0 /\ handles[u].made # 0 =>
                      task'[t].thread_id = handles[u].made]_vars

\* C13 witness: get_or_create_thread returned a thread id for the user, a
\* reset_thread replaced it, and the handler of a message now holds the id
\* the reset created.
C13_Witness ==
    \E t \in Tasks :
        /\ task[t].pc = "append"
        /\ handles[task[t].user].before # 0
        /\ handles[task[t].user].before \in handles[task[t].user].old
        /\ task[t].thread_id = handles[task[t].user].made
        /\ task[t].thread_id # handles[task[t].user].before

StoredRecord(file, u) ==
    IF file.st = "ok" /\ u \in DOMAIN file.data THEN file.data[u] ELSE NewRecord(clock, clock)

C18_CountsWithinLimits ==
    usage_file.st = "ok" =>
        \A u \in DOMAIN usage_file.data :
            /\ usage_file.data[u].daily <= DAILY_MSG_LIMIT
            /\ usage_file.data[u].monthly <= MONTHLY_MSG_LIMIT

\* C18 witness: the user was one message short of the daily limit, a turn
\* was admitted and has registered, and the stored daily count is the limit.
C18_Witness ==
    \E t \in Tasks :
        /\ task[t].pc = "respond"
        /\ sent[task[t].user].n >= 1
        /\ usage_file.st = "ok"
        /\ usage_file.data[task[t].user].daily = DAILY_MSG_LIMIT
        /\ usage_file.data[task[t].user].monthly <= MONTHLY_MSG_LIMIT

\* C18 (as claimed): the stored counts are within the limits and, what the
\* claim calls equivalent, no more than DAILY_MSG_LIMIT turns of a user are
\* submitted to the assistant within the day: the turns the stored daily
\* count stands for, and one more when a turn of the user whose run the
\* service accepted ended unregistered, are at most DAILY_MSG_LIMIT.
C18_SubmittedTurnsWithinLimit ==
    /\ C18_CountsWithinLimits
    /\ usage_file.st = "ok" =>
          \A u \in DOMAIN usage_file.data :
              usage_file.data[u].daily + (IF sent[u].lost THEN 1 ELSE 0)
                  <= DAILY_MSG_LIMIT

\* A user's record in the stored document and thread id in the map, as
\* one-element tuples; the empty tuple when there is none.
RecordOf(file, v) ==
    IF file.st = "ok" /\ v \in DOMAIN file.data THEN <<file.data[v]>> ELSE <<>>
HandleOf(map, v) == IF v \in DOMAIN map THEN <<map[v]>> ELSE <<>>

\* C16 (as claimed): a step of the handler of a message or command of user u,
\* an error in it included, leaves the stored record and the thread id of
\* every other user as they are.
C16_OtherUsersUntouched ==
    [][\A t \in Tasks :
          task'[t] # task[t] =>
              LET u == IF task[t].pc = "idle" THEN task'[t].user ELSE task[t].user
              IN \A v \in Users \ {u} :
                    /\ RecordOf(usage_file', v) = RecordOf(usage_file, v)
                    /\ HandleOf(user_threads', v) = HandleOf(user_threads, v)]_vars

\* The steps of the reporting handlers: the one in which the dispatcher
\* starts the handler of task t, and every later step of that handler.
ReportKinds == {"userstats", "stats", "charts", "chartsbutton"}
ReportStep(t) == task[t].pc = "idle" /\ task'[t].kind \in ReportKinds
ReportTaskStep(t) ==
    \/ ReportStep(t)
    \/ task[t].kind \in ReportKinds /\ task'[t] # task[t]

\* C17: the weekly report, /userstats, the statistics button and the charts
\* leave usage.json and the thread map as they are, and what they show are
\* the stored counters as they are, with no reconciliation to the current
\* day or month.
C17_ReportsReadOnly ==
    [][/\ \A t \in Tasks :
             ReportTaskStep(t) =>
                 UNCHANGED <<usage_file, user_threads, nthreads, convs, sent>>
       /\ job' # job =>
             UNCHANGED <<usage_file, user_threads, nthreads, convs, sent>>
       /\ \A t \in Tasks :
             /\ ReportStep(t) /\ task'[t].kind = "userstats"
                   /\ Len(task'[t].respuesta) = 6 =>
                   LET stored == usage_file.data[task'[t].respuesta[2]]
                   IN SubSeq(task'[t].respuesta, 3, 6)
                          = <<stored.daily, stored.monthly,
                              stored.tokens_today, stored.tokens_month>>
             /\ task[t].pc = "answer" /\ task'[t].pc = "say"
                   /\ Len(task'[t].respuesta) = 4 =>
                   /\ task'[t].respuesta[2] = Cardinality(DOMAIN Loaded)
                   /\ \A k \in DOMAIN Loaded :
                         /\ task'[t].respuesta[3] >= Loaded[k].monthly
                         /\ task'[t].respuesta[4] >= Loaded[k].tokens_month
             /\ task[t].pc \in {"idle", "answer"}
                   /\ task'[t].pc \in ChartPcs \cup {"generating"} =>
                   task'[t].loaded = Loaded
             /\ task[t].pc = "bar" /\ Len(task'[t].photos) > Len(task[t].photos) =>
                   task'[t].photos[Len(task'[t].photos)] =
                       <<"bar", <<[k \in DOMAIN task[t].loaded |->
                                      task[t].loaded[k].tokens_month]>>>>
       /\ job.pc = "idle" /\ job'.pc = "send" =>
             job'.report[2] =
                 [k \in DOMAIN Loaded |-> <<Loaded[k].monthly, Loaded[k].tokens_month>>]
      ]_vars

\* C17 witness: /userstats has shown a record stamped on an earlier day with
\* its daily count, and the stored record still carries the old stamp and
\* count.
C17_Witness ==
    \E t \in Tasks :
        /\ task[t].kind = "userstats"
        /\ task[t].pc = "done"
        /\ Len(task[t].reply) = 6
        /\ usage_file.st = "ok"
        /\ LET stored == usage_file.data[task[t].reply[2]]
           IN /\ stored.last_day # TodayStamp(clock)
              /\ stored.daily = DAILY_MSG_LIMIT
              /\ task[t].reply[3] = DAILY_MSG_LIMIT

\* The year-month of a day stamp.
MonthOfDay(day) == <<day[1]>>

\* C19 (as claimed): from no usage.json, whatever can_user_continue and
\* register_usage_after_response calls are made and however the date is
\* changed, every stored record has daily <= monthly and tokens_today <=
\* tokens_month, and its month stamp is the month of its day stamp: a write
\* that changes the month stamp of a record changes its day stamp as well.
C19_RecordConsistency ==
    /\ [](usage_file.st = "ok" =>
             \A u \in DOMAIN usage_file.data :
                 LET r == usage_file.data[u]
                 IN /\ r.daily <= r.monthly
                    /\ r.tokens_today <= r.tokens_month
                    /\ r.last_month = MonthOfDay(r.last_day))
    /\ [][usage_file.st = "ok" /\ usage_file'.st = "ok" =>
             \A u \in DOMAIN usage_file.data \cap DOMAIN usage_file'.data :
                 usage_file'.data[u].last_month # usage_file.data[u].last_month =>
                     /\ usage_file'.data[u].last_day # usage_file.data[u].last_day
                     /\ usage_file'.data[u].daily = 1
                     /\ usage_file'.data[u].monthly = 1]_vars

\* C20 (as claimed): when run_assistant returns the text of an assistant
\* message for a completed run, that message was produced by the run of this
\* turn, after the turn's user message was appended; it is never a message of
\* an earlier turn of the conversation.
C20_ReplyIsOfThisTurn ==
    [][\A t \in Tasks :
          /\ task[t].pc = "poll"
          /\ task'[t].pc = "register"
          /\ task[t].status = "completed"
          /\ AssistantIndexes(convs[task[t].thread_id]) # {}
          => MostRecentAssistant(convs[task[t].thread_id]).turn = t]_vars

====
